---- MODULE Spec2Model ----
(***************************************************************************)
(* BakuScan: the market-data aggregation pipeline of python_app/scraper.py *)
(* (Price Scraper, Image Scraper, Rarity Estimator, Market Data            *)
(* Aggregator) and the identification boundary of python_app/main.py.      *)
(*                                                                         *)
(* Text is a sequence of one-character strings, so that str.lower, `in`,   *)
(* startswith and slicing are computed and not assumed.  Money is counted  *)
(* in cents: the float 12.5 of the code is 1250 here.                      *)
(***************************************************************************)
EXTENDS Integers, Sequences, FiniteSets, TLC

VARIABLES pc, op, args, driver, chrome, soup, result, pending,
          pricing, images, market, returned, escaped, calls,
          SCANS_STORAGE, session, clock, reply, response

vars == <<pc, op, args, driver, chrome, soup, result, pending,
          pricing, images, market, returned, escaped, calls,
          SCANS_STORAGE, session, clock, reply, response>>

scraperVars == <<pc, op, args, driver, chrome, soup, result, pending,
                 pricing, images, market, returned, escaped, calls>>

scanVars == <<SCANS_STORAGE, session, clock, reply, response>>

----------------------------------------------------------------------------
(* Bounds of the model *)

MaxShort == 2
LongLen == 6
MaxAnchors == 2
MaxImgs == 2
MaxScans == 2

(* Python values *)

None == "None"
NoPrice == 0 - 1

Min(a, b) == IF a <= b THEN a ELSE b
Max(a, b) == IF a >= b THEN a ELSE b

----------------------------------------------------------------------------
(* str operations *)

Rep(c, n) == [i \in 1..n |-> c]

Take(s, n) == SubSeq(s, 1, Min(n, Len(s)))

PySliceTo(s, k) ==
  IF k >= 0 THEN SubSeq(s, 1, Min(k, Len(s)))
            ELSE SubSeq(s, 1, Max(Len(s) + k, 0))

LowerMap ==
  [A |-> "a", B |-> "b", C |-> "c", D |-> "d", E |-> "e", F |-> "f", G |-> "g",
   H |-> "h", I |-> "i", J |-> "j", K |-> "k", L |-> "l", M |-> "m", N |-> "n",
   O |-> "o", P |-> "p", Q |-> "q", R |-> "r", S |-> "s", T |-> "t", U |-> "u",
   V |-> "v", W |-> "w", X |-> "x", Y |-> "y", Z |-> "z"]

LowerChar(c) == IF c \in DOMAIN LowerMap THEN LowerMap[c] ELSE c

Lower(s) == [i \in 1..Len(s) |-> LowerChar(s[i])]

Contains(sub, s) ==
  \E i \in 0..(Len(s) - Len(sub)) : SubSeq(s, i + 1, i + Len(sub)) = sub

StartsWith(s, prefix) ==
  Len(s) >= Len(prefix) /\ SubSeq(s, 1, Len(prefix)) = prefix

----------------------------------------------------------------------------
(* RARITY_VALUES, in cents *)

RARITY_VALUES ==
  [Common    |-> [min |-> 500,  max |-> 1500,  avg |-> 800],
   Uncommon  |-> [min |-> 1000, max |-> 2500,  avg |-> 1500],
   Rare      |-> [min |-> 2000, max |-> 5000,  avg |-> 3000],
   SuperRare |-> [min |-> 4000, max |-> 10000, avg |-> 6000],
   UltraRare |-> [min |-> 8000, max |-> 25000, avg |-> 12000]]

RarityKey(rarity) ==
  CASE rarity = "Common" -> "Common"
    [] rarity = "Uncommon" -> "Uncommon"
    [] rarity = "Rare" -> "Rare"
    [] rarity = "Super Rare" -> "SuperRare"
    [] rarity = "Ultra Rare" -> "UltraRare"
    [] OTHER -> None

(* variant: the fallback always uses the Common tier *)
estimate_price_by_rarity_AlwaysCommon(rarity) ==
  [success |-> TRUE,
   estimated |-> TRUE,
   average_price |-> RARITY_VALUES["Common"].avg,
   min_price |-> RARITY_VALUES["Common"].min,
   max_price |-> RARITY_VALUES["Common"].max,
   num_listings |-> 0,
   listings |-> <<>>,
   error |-> None]

estimate_price_by_rarity(rarity) ==
  LET values == IF rarity # None /\ RarityKey(rarity) # None
                THEN RARITY_VALUES[RarityKey(rarity)]
                ELSE RARITY_VALUES["Common"]
  IN [success |-> TRUE,
      estimated |-> TRUE,
      average_price |-> values.avg,
      min_price |-> values.min,
      max_price |-> values.max,
      num_listings |-> 0,
      listings |-> <<>>,
      error |-> None]

(* dict.update: the keys of `other` overwrite those of `d` *)
Update(d, other) ==
  [k \in DOMAIN d |-> IF k \in DOMAIN other THEN other[k] ELSE d[k]]

----------------------------------------------------------------------------
(* Exceptions: TimeoutException < WebDriverException < Exception *)

IsInstance(exc, cls) ==
  CASE cls = "TimeoutException" -> exc = "TimeoutException"
    [] cls = "WebDriverException" -> exc \in {"TimeoutException", "WebDriverException"}
    [] cls = "Exception" -> exc \in {"TimeoutException", "WebDriverException",
                                     "ValueError", "Exception"}
    [] OTHER -> FALSE

----------------------------------------------------------------------------
(* create_selenium_driver: webdriver.Chrome may fail to launch, or the     *)
(* launched browser may fail in execute_cdp_cmd / execute_script; either   *)
(* way the except clause returns None.                                     *)

DriverOutcomes == {"launch_fails", "setup_fails", "ok"}

create_selenium_driver(outcome, ch) ==
  CASE outcome = "launch_fails" -> [driver |-> None, chrome |-> ch]
    [] outcome = "setup_fails" ->
         [driver |-> None, chrome |-> [ch EXCEPT !.launched = @ + 1]]
    [] OTHER ->
         [driver |-> "driver", chrome |-> [ch EXCEPT !.launched = @ + 1]]

DriverQuit(ch) == [ch EXCEPT !.quit = @ + 1]

----------------------------------------------------------------------------
(* Price text: re.search of the pattern "optional dollar sign, then one or  *)
(* more of digit-or-comma (the group), then an optional dot and digits", and *)
(* float() of the group without its commas.  The price texts of the model   *)
(* carry at most two decimals, so the float is an exact number of cents.    *)

NoText == <<"<None>">>

Digits == <<"0", "1", "2", "3", "4", "5", "6", "7", "8", "9">>

IsDigit(c) == \E i \in 1..10 : Digits[i] = c

DigitVal(c) == (CHOOSE i \in 1..10 : Digits[i] = c) - 1

IsDigitOrComma(c) == IsDigit(c) \/ c = ","

(* positions where the pattern can start: an optional $ and then [\d,] *)
MatchStarts(text) ==
  {i \in 1..Len(text) :
     \/ IsDigitOrComma(text[i])
     \/ text[i] = "$" /\ i < Len(text) /\ IsDigitOrComma(text[i + 1])}

(* last index of the longest run of characters of class `digitsOnly`
   starting at `from`; from - 1 when the run is empty *)
RECURSIVE RunEnd(_, _, _)
RunEnd(text, from, digitsOnly) ==
  IF from <= Len(text)
     /\ (IF digitsOnly THEN IsDigit(text[from]) ELSE IsDigitOrComma(text[from]))
  THEN RunEnd(text, from + 1, digitsOnly)
  ELSE from - 1

(* group(1) of the leftmost match, NoText when there is no match *)
PriceMatch(text) ==
  IF MatchStarts(text) = {} THEN NoText
  ELSE LET i == CHOOSE k \in MatchStarts(text) : \A j \in MatchStarts(text) : k <= j
           g == IF text[i] = "$" THEN i + 1 ELSE i
           e1 == RunEnd(text, g, FALSE)
           e2 == IF e1 < Len(text) /\ text[e1 + 1] = "."
                 THEN RunEnd(text, e1 + 2, TRUE)
                 ELSE e1
       IN SubSeq(text, g, e2)

RemoveCommas(s) == SelectSeq(s, LAMBDA c : c # ",")

RECURSIVE Num(_)
Num(ds) ==
  IF ds = <<>> THEN 0
  ELSE Num(SubSeq(ds, 1, Len(ds) - 1)) * 10 + DigitVal(ds[Len(ds)])

(* float(s) in cents; `raises` when float() rejects the text *)
Float(s) ==
  LET dots == {i \in 1..Len(s) : s[i] = "."}
      dot == IF dots = {} THEN Len(s) + 1 ELSE CHOOSE i \in dots : TRUE
      ip == SubSeq(s, 1, dot - 1)
      fp == SubSeq(s, dot + 1, Len(s))
      f2 == Take(fp \o <<"0", "0">>, 2)
  IN IF Len(ip) + Len(fp) = 0
     THEN [raises |-> TRUE, value |-> 0]
     ELSE [raises |-> FALSE, value |-> Num(ip) * 100 + Num(f2)]

----------------------------------------------------------------------------
(* scrape_ebay_prices *)

ExamineFactor == 3
TitleCut == 80
PriceMin == 100
PriceMax == 50000
DefaultLimit == 10

InitPricingResult(bakugan_name) ==
  [success |-> FALSE,
   bakugan_name |-> bakugan_name,
   average_price |-> NoPrice,
   min_price |-> NoPrice,
   max_price |-> NoPrice,
   num_listings |-> 0,
   listings |-> <<>>,
   error |-> None,
   estimated |-> FALSE]

(* result.update(fallback); result["bakugan_name"] = ...; result["error"] = ... *)
Fallback(res, rarity, error) ==
  [Update(res, estimate_price_by_rarity(rarity)) EXCEPT !.error = error]

(* soup.select('.s-card, .srp-results li.s-card'): the nodes of class s-card *)
SelectCards(page) == SelectSeq(page, LAMBDA n : n.sCard)

Skip == [accept |-> FALSE, title |-> <<>>, price |-> 0, url |-> None]

(* variant: the loop body without the name filter of lines 171-172 *)
Examine_NoNameFilter(item, bakugan_name) ==
  IF ~item.sCard \/ item.title = NoText \/ item.price = NoText THEN Skip
  ELSE LET m == PriceMatch(item.price)
       IN IF m = NoText THEN Skip
          ELSE LET f == Float(RemoveCommas(m))
               IN IF f.raises \/ f.value < PriceMin \/ f.value > PriceMax THEN Skip
                  ELSE [accept |-> TRUE,
                        title |-> Take(item.title, TitleCut),
                        price |-> f.value,
                        url |-> item.href]

(* one iteration of the loop body, lines 151-198; an exception raised in  *)
(* the body (float of a text without digits) is caught and the candidate  *)
(* skipped                                                                *)
Examine(item, bakugan_name) ==
  IF ~item.sCard THEN Skip
  ELSE IF item.title = NoText \/ item.price = NoText THEN Skip
  ELSE LET title == item.title
           m == PriceMatch(item.price)
       IN IF Contains(<<"s", "h", "o", "p", " ", "o", "n", " ", "e", "b", "a", "y">>, Lower(title))
          THEN Skip
          ELSE IF \/ Contains(<<"s", "e", "l", "l", "e", "r", "s", " ", "w", "i", "t", "h">>, Lower(title))
                  \/ Contains(<<"r", "e", "t", "u", "r", "n", "s">>, Lower(title))
          THEN Skip
          ELSE IF ~Contains(Lower(bakugan_name), Lower(title)) THEN Skip
          ELSE IF m = NoText THEN Skip
          ELSE LET f == Float(RemoveCommas(m))
               IN IF f.raises THEN Skip
                  ELSE IF f.value < PriceMin \/ f.value > PriceMax THEN Skip
                  ELSE [accept |-> TRUE,
                        title |-> Take(title, TitleCut),
                        price |-> f.value,
                        url |-> item.href]

(* the loop of lines 150-198 over listings[:limit * 3], from item i on *)
RECURSIVE Scan(_, _, _, _, _)
Scan(items, i, bakugan_name, limit, acc) ==
  IF i > Len(items) THEN acc
  ELSE LET e == Examine(items[i], bakugan_name)
       IN IF ~e.accept THEN Scan(items, i + 1, bakugan_name, limit, acc)
          ELSE LET acc2 == [listings |-> Append(acc.listings,
                                          [title |-> e.title, price |-> e.price, url |-> e.url]),
                            prices |-> Append(acc.prices, e.price)]
               IN IF Len(acc2.prices) >= limit THEN acc2
                  ELSE Scan(items, i + 1, bakugan_name, limit, acc2)

RECURSIVE Sum(_)
Sum(xs) == IF xs = <<>> THEN 0 ELSE xs[1] + Sum(Tail(xs))

SeqMin(xs) == CHOOSE x \in {xs[i] : i \in 1..Len(xs)} : \A j \in 1..Len(xs) : x <= xs[j]
SeqMax(xs) == CHOOSE x \in {xs[i] : i \in 1..Len(xs)} : \A j \in 1..Len(xs) : x >= xs[j]

(* variant: the mean truncated to the cent instead of rounded *)
RoundedMeans_Truncated(prices) == {Sum(prices) \div Len(prices)}

(* round(sum(prices) / len(prices), 2) in cents.  The quotient is a binary *)
(* float: off a tie it rounds to the nearest cent, on an exact tie the     *)
(* float lies on either side of it, so both neighbours are outcomes.       *)
RoundedMeans(prices) ==
  LET n == Len(prices)
      s == Sum(prices)
      q == s \div n
      r == s % n
  IN IF 2 * r < n THEN {q}
     ELSE IF 2 * r > n THEN {q + 1}
     ELSE {q, q + 1}

(* variant: success reported without the test of line 200 *)
Summarise_Unconditional(res, acc, avg, rarity) ==
  [res EXCEPT !.success = TRUE,
              !.listings = acc.listings,
              !.average_price = avg,
              !.num_listings = Len(acc.prices)]

(* lines 200-209 *)
Summarise(res, acc, avg, rarity) ==
  IF acc.prices # <<>>
  THEN [res EXCEPT !.success = TRUE,
                   !.listings = acc.listings,
                   !.average_price = avg,
                   !.min_price = SeqMin(acc.prices),
                   !.max_price = SeqMax(acc.prices),
                   !.num_listings = Len(acc.prices)]
  ELSE Update(res, estimate_price_by_rarity(rarity))

(* variant: the outer try without its `except Exception` clause *)
PricingHandler_OnlyWebDriver(exc) ==
  IF IsInstance(exc, "WebDriverException") THEN "Browser error" ELSE "unhandled"

(* the except clause of the outer try that handles exc, lines 211-220 *)
PricingHandler(exc) ==
  IF IsInstance(exc, "WebDriverException") THEN "Browser error"
  ELSE IF IsInstance(exc, "Exception") THEN "Exception"
  ELSE "unhandled"

----------------------------------------------------------------------------
(* scrape_reference_images and get_placeholder_images *)

CaptionCut == 60
NonStr == <<"<int>">>

InitImagesResult(bakugan_name) ==
  [success |-> FALSE,
   bakugan_name |-> bakugan_name,
   images |-> <<>>,
   error |-> None]

A_Pyrus == <<"P", "y", "r", "u", "s">>
A_Aquos == <<"A", "q", "u", "o", "s">>
A_Subterra == <<"S", "u", "b", "t", "e", "r", "r", "a">>
A_Haos == <<"H", "a", "o", "s">>
A_Darkus == <<"D", "a", "r", "k", "u", "s">>
A_Ventus == <<"V", "e", "n", "t", "u", "s">>

(* ATTRIBUTE_COLORS.get(attribute, "#888888")[1:] *)
AttributeColor(attribute) ==
  CASE attribute = A_Pyrus -> <<"e", "6", "3", "9", "4", "6">>
    [] attribute = A_Aquos -> <<"0", "e", "a", "5", "e", "9">>
    [] attribute = A_Subterra -> <<"a", "1", "6", "2", "0", "7">>
    [] attribute = A_Haos -> <<"f", "b", "b", "f", "2", "4">>
    [] attribute = A_Darkus -> <<"7", "c", "3", "a", "e", "d">>
    [] attribute = A_Ventus -> <<"2", "2", "c", "5", "5", "e">>
    [] OTHER -> <<"8", "8", "8", "8", "8", "8">>

PlaceholderBase ==
  <<"h", "t", "t", "p", "s", ":", "/", "/", "v", "i", "a", ".", "p", "l", "a", "c",
    "e", "h", "o", "l", "d", "e", "r", ".", "c", "o", "m", "/", "3", "0", "0", "x",
    "3", "0", "0", "/">>

(* variant: no placeholder is generated *)
get_placeholder_images_Empty(bakugan_name, attribute) == <<>>

get_placeholder_images(bakugan_name, attribute) ==
  <<[url |-> PlaceholderBase \o AttributeColor(attribute)
             \o <<"/", "f", "f", "f", "?", "t", "e", "x", "t", "=">>
             \o Take(bakugan_name, 3),
     title |-> bakugan_name \o <<" ", "(">>
               \o (IF attribute = NoText \/ attribute = <<>>
                   THEN <<"U", "n", "k", "n", "o", "w", "n">> ELSE attribute)
               \o <<")">>,
     source |-> "Placeholder"]>>

(* any(x in img_url.lower() for x in ['gif', 'svg', 'logo']) *)
Disallowed(url) ==
  \/ Contains(<<"g", "i", "f">>, Lower(url))
  \/ Contains(<<"s", "v", "g">>, Lower(url))
  \/ Contains(<<"l", "o", "g", "o">>, Lower(url))

NoImage == [accept |-> FALSE, image |-> [url |-> <<>>, title |-> <<>>, source |-> "Web"]]

(* the body of the loop over a.iusc anchors, lines 277-291; json.loads of   *)
(* an invalid attribute, .get on a JSON list, .lower() of a non-string murl *)
(* and len() of a non-string caption raise, and the except clause skips     *)
(* the anchor                                                              *)
ExtractAnchor(item, bakugan_name) ==
  IF item.m # "dict" THEN NoImage
  ELSE LET img_url == item.murl
           title == IF item.t = NoText THEN bakugan_name ELSE item.t
       IN IF img_url = NoText \/ img_url = <<>> THEN NoImage
          ELSE IF img_url = NonStr THEN NoImage
          ELSE IF Disallowed(img_url) THEN NoImage
          ELSE IF title = NonStr THEN NoImage
          ELSE [accept |-> TRUE,
                image |-> [url |-> img_url,
                           title |-> IF Len(title) > CaptionCut
                                     THEN Take(title, CaptionCut) ELSE title,
                           source |-> "Web"]]

(* the loop of lines 273-291 from anchor i on *)
RECURSIVE ScanAnchors(_, _, _, _, _)
ScanAnchors(img_links, i, bakugan_name, limit, acc) ==
  IF i > Len(img_links) THEN acc
  ELSE IF Len(acc) >= limit THEN acc
  ELSE LET e == ExtractAnchor(img_links[i], bakugan_name)
       IN ScanAnchors(img_links, i + 1, bakugan_name, limit,
                      IF e.accept THEN Append(acc, e.image) ELSE acc)

(* the condition of line 297 on src = img.get('src') or img.get('data-src') *)
TagAccepted(src) ==
  /\ src # NoText /\ src # <<>>
  /\ StartsWith(src, <<"h", "t", "t", "p">>)
  /\ ~Contains(<<"b", "i", "n", "g", ".", "c", "o", "m", "/", "t", "h">>, Lower(src))

TagSrc(img) == IF img.src # NoText /\ img.src # <<>> THEN img.src ELSE img.dataSrc

(* the loop of lines 295-302 over img_tags[:limit] *)
RECURSIVE ScanTags(_, _, _)
ScanTags(img_tags, bakugan_name, acc) ==
  IF img_tags = <<>> THEN acc
  ELSE ScanTags(Tail(img_tags), bakugan_name,
                IF TagAccepted(TagSrc(Head(img_tags)))
                THEN Append(acc, [url |-> TagSrc(Head(img_tags)),
                                  title |-> bakugan_name,
                                  source |-> "Web"])
                ELSE acc)

(* lines 271-291: the images of the a.iusc anchors *)
ExtractAnchors(res, img_links, limit) ==
  [res EXCEPT !.images = ScanAnchors(img_links, 1, res.bakugan_name, limit, <<>>)]

(* lines 293-311: the img tags when no anchor gave an image, the           *)
(* placeholder when nothing did                                            *)
ExtractTags(res, img_tags, limit, attribute) ==
  LET found == IF res.images # <<>> THEN res.images
               ELSE ScanTags(PySliceTo(img_tags, limit), res.bakugan_name, <<>>)
      placeholder == get_placeholder_images(res.bakugan_name, attribute)
  IN IF found # <<>>
     THEN [res EXCEPT !.images = found, !.success = TRUE]
     ELSE IF placeholder # <<>>
     THEN [res EXCEPT !.images = placeholder, !.success = TRUE]
     ELSE [res EXCEPT !.images = placeholder, !.error = "No images found"]

(* lines 253-255 and 314-318 *)
PlaceholderResult(res, attribute, error) ==
  LET placeholder == get_placeholder_images(res.bakugan_name, attribute)
  IN IF placeholder # <<>>
     THEN [res EXCEPT !.images = placeholder, !.success = TRUE]
     ELSE [res EXCEPT !.images = placeholder, !.error = error]

(* the except clause of the outer try that handles exc, line 313 *)
ImagesHandler(exc) ==
  IF IsInstance(exc, "Exception") THEN "Exception" ELSE "unhandled"

----------------------------------------------------------------------------
(* Inputs: arguments of the calls and contents of the pages *)

NameDrago == <<"D", "r", "a", "g", "o">>

Names == {NameDrago}
Attributes == {NoText, A_Pyrus}
Rarities == {None, "Rare", "Mythic"}
PricingLimits == {0 - 1, 0, 1, 2, DefaultLimit}
ImageLimits == {0 - 1, 0, 1, 5}

T_Upper == <<"D", "R", "A", "G", "O", " ", "N", "E", "W">>
T_Mixed == <<"P", "y", "r", "u", "s", " ", "D", "r", "a", "g", "o">>
T_Long == Rep("x", 78) \o NameDrago
T_Shop == <<"D", "r", "a", "g", "o", " ", "S", "h", "o", "p", " ", "o", "n", " ", "e", "B", "a", "y">>
T_Sellers == <<"D", "r", "a", "g", "o", " ", "s", "e", "l", "l", "e", "r", "s", " ", "w", "i", "t", "h", " ", "9", "9", "%">>
T_NameReturns == <<"D", "r", "a", "g", "o", " ", "r", "e", "t", "u", "r", "n", "s">>
T_Other == <<"H", "y", "d", "r", "a", "n", "o", "i", "d">>

P_1250 == <<"$", "1", "2", ".", "5", "0">>
P_103 == <<"$", "1", ".", "0", "3">>
P_500 == <<"$", "5", "0", "0", ".", "0", "0">>
P_099 == <<"$", "0", ".", "9", "9">>
P_1200 == <<"1", ",", "2", "0", "0", ".", "0", "0">>
P_Free == <<"F", "r", "e", "e">>
P_Comma == <<",">>

Card(title, price, href) ==
  [sCard |-> TRUE, title |-> title, price |-> price, href |-> href]

GoodCards == {Card(T_Upper, P_1250, "https://www.ebay.com/itm/1"),
              Card(T_Mixed, P_103, None)}

Nodes ==
  GoodCards \cup
  {Card(T_Long, P_500, "https://www.ebay.com/itm/3"),
   Card(T_Shop, P_1250, None),
   Card(T_Sellers, P_1250, None),
   Card(T_NameReturns, P_1250, None),
   Card(T_Other, P_1250, None),
   Card(T_Upper, P_099, None),
   Card(T_Upper, P_1200, None),
   Card(T_Upper, P_Free, None),
   Card(T_Upper, P_Comma, None),
   Card(NoText, P_1250, None),
   [sCard |-> FALSE, title |-> T_Upper, price |-> P_1250, href |-> None]}

SeqsUpTo(S, n) == UNION {[1..k -> S] : k \in 0..n}

(* long pages of good cards: k cards a, then cards b *)
LongPages ==
  {[i \in 1..LongLen |-> IF i <= k THEN a ELSE b] :
     k \in 0..LongLen, a \in GoodCards, b \in GoodCards}

PricingPages == SeqsUpTo(Nodes, MaxShort) \cup LongPages

U_Jpg == <<"h", "t", "t", "p", ":", "/", "/", "a", "/", "1", ".", "j", "p", "g">>
U_Gif == <<"h", "t", "t", "p", ":", "/", "/", "a", "/", "1", ".", "G", "I", "F">>
U_Logo == <<"h", "t", "t", "p", ":", "/", "/", "a", "/", "L", "o", "g", "o", ".", "p", "n", "g">>
U_Svg == <<"h", "t", "t", "p", ":", "/", "/", "a", "/", "i", ".", "s", "v", "g">>
U_Rel == <<"/", "r", "e", "l", "/", "2", ".", "j", "p", "g">>
U_Bing == <<"h", "t", "t", "p", ":", "/", "/", "B", "i", "n", "g", ".", "c", "o", "m", "/", "t", "h", "/", "1">>
U_Png == <<"h", "t", "t", "p", ":", "/", "/", "b", "/", "2", ".", "p", "n", "g">>

Cap_Short == <<"D", "r", "a", "g", "o", " ", "t", "o", "y">>
Cap_Long == Rep("c", CaptionCut + 1)

Anchor(m, murl, caption) == [m |-> m, murl |-> murl, t |-> caption]

Anchors ==
  {Anchor("dict", U_Jpg, Cap_Short),
   Anchor("dict", U_Png, Cap_Long),
   Anchor("dict", U_Gif, Cap_Short),
   Anchor("dict", U_Logo, Cap_Short),
   Anchor("dict", NoText, Cap_Short),
   Anchor("dict", U_Png, NonStr),
   Anchor("dict", U_Jpg, NoText),
   Anchor("invalid", NoText, NoText)}

Img(src, dataSrc) == [src |-> src, dataSrc |-> dataSrc]

Imgs ==
  {Img(U_Jpg, NoText),
   Img(NoText, U_Png),
   Img(U_Svg, NoText),
   Img(U_Rel, NoText),
   Img(U_Bing, U_Jpg),
   Img(NoText, NoText)}

AnchorLists == SeqsUpTo(Anchors, MaxAnchors)
ImgLists == SeqsUpTo(Imgs, MaxImgs)

----------------------------------------------------------------------------
(* get_market_data: the composition of lines 352-370 *)

ListingCap == 5
ImageCap == 6
MarketImageLimit == 6

Compose(bakugan_name, attribute, pr, im) ==
  [bakugan_name |-> bakugan_name,
   attribute |-> attribute,
   pricing |-> [success |-> pr.success,
                estimated |-> pr.estimated,
                average_price |-> pr.average_price,
                min_price |-> pr.min_price,
                max_price |-> pr.max_price,
                num_listings |-> pr.num_listings,
                listings |-> Take(pr.listings, ListingCap),
                error |-> pr.error],
   images |-> [success |-> im.success,
               items |-> Take(im.images, ImageCap),
               error |-> im.error]]

----------------------------------------------------------------------------
(* Outcomes of driver.get, WebDriverWait.until and the parse of the page   *)

LoadOutcomes ==
  {[at |-> "none", exc |-> None]}
  \cup {[at |-> a, exc |-> e] : a \in {"get", "wait"},
                                e \in {"TimeoutException", "WebDriverException"}}
  \cup {[at |-> "parse", exc |-> "Exception"]}

(* the inner try around the wait passes on TimeoutException, lines 137-142 *)
Propagates(o) ==
  o.exc # None /\ ~(o.at = "wait" /\ IsInstance(o.exc, "TimeoutException"))

----------------------------------------------------------------------------
(* State *)

NoArgs == [name |-> <<>>, attribute |-> NoText, limit |-> 0, rarity |-> None]

Init ==
  /\ pc = "idle"
  /\ op = "none"
  /\ args = NoArgs
  /\ driver = None
  /\ chrome = [launched |-> 0, quit |-> 0]
  /\ soup = <<>>
  /\ result = InitPricingResult(<<>>)
  /\ pending = None
  /\ pricing = InitPricingResult(<<>>)
  /\ images = InitImagesResult(<<>>)
  /\ market = Compose(<<>>, NoText, InitPricingResult(<<>>), InitImagesResult(<<>>))
  /\ returned = {}
  /\ escaped = FALSE
  /\ calls = [pricing |-> 0, images |-> 0]
  /\ SCANS_STORAGE = <<>>
  /\ session = [c \in {"c1", "c2"} |-> 0]
  /\ clock = 0
  /\ reply = [kind |-> "none", name |-> None, confidence |-> 0]
  /\ response = [route |-> "none", status |-> 0, body |-> <<>>]

----------------------------------------------------------------------------
(* Entry points *)

CallFetchPricing ==
  /\ pc = "idle"
  /\ \E n \in Names, a \in Attributes, l \in PricingLimits, r \in Rarities :
       /\ args' = [name |-> n, attribute |-> a, limit |-> l, rarity |-> r]
       /\ result' = InitPricingResult(n)
  /\ op' = "fetchPricing"
  /\ calls' = [calls EXCEPT !.pricing = @ + 1]
  /\ pc' = "p_create"
  /\ UNCHANGED <<driver, chrome, soup, pending, pricing, images, market,
                 returned, escaped>>
  /\ UNCHANGED scanVars

CallFetchImages ==
  /\ pc = "idle"
  /\ \E n \in Names, a \in Attributes, l \in ImageLimits :
       /\ args' = [name |-> n, attribute |-> a, limit |-> l, rarity |-> None]
       /\ result' = InitImagesResult(n)
  /\ op' = "fetchImages"
  /\ calls' = [calls EXCEPT !.images = @ + 1]
  /\ pc' = "i_create"
  /\ UNCHANGED <<driver, chrome, soup, pending, pricing, images, market,
                 returned, escaped>>
  /\ UNCHANGED scanVars

(* get_market_data up to the call of line 348 *)
CallGetMarketData ==
  /\ pc = "idle"
  /\ \E n \in Names, a \in Attributes, r \in Rarities :
       /\ args' = [name |-> n, attribute |-> a, limit |-> DefaultLimit, rarity |-> r]
       /\ result' = InitPricingResult(n)
  /\ op' = "getMarketData"
  /\ calls' = [calls EXCEPT !.pricing = @ + 1]
  /\ pc' = "p_create"
  /\ UNCHANGED <<driver, chrome, soup, pending, pricing, images, market,
                 returned, escaped>>
  /\ UNCHANGED scanVars

----------------------------------------------------------------------------
(* scrape_ebay_prices *)

(* lines 126-132 *)
P_CreateDriver ==
  /\ pc = "p_create"
  /\ \E outcome \in DriverOutcomes :
       LET c == create_selenium_driver(outcome, chrome)
       IN /\ driver' = c.driver
          /\ chrome' = c.chrome
          /\ IF c.driver = None
             THEN /\ result' = Fallback(result, args.rarity,
                                        "Failed to create browser driver")
                  /\ pc' = "p_finally"
             ELSE /\ result' = result
                  /\ pc' = "p_load"
  /\ UNCHANGED <<op, args, soup, pending, pricing, images, market, returned,
                 escaped, calls>>
  /\ UNCHANGED scanVars

(* lines 134-145, and the except clauses of lines 211-220 when they raise *)
P_Load ==
  /\ pc = "p_load"
  /\ \E o \in LoadOutcomes :
       IF Propagates(o)
       THEN LET h == PricingHandler(o.exc)
            IN /\ pc' = "p_finally"
               /\ IF h = "unhandled"
                  THEN pending' = o.exc /\ result' = result
                  ELSE pending' = None /\ result' = Fallback(result, args.rarity, h)
       ELSE /\ pc' = "p_scan"
            /\ UNCHANGED <<pending, result>>
  /\ UNCHANGED <<op, args, driver, chrome, soup, pricing, images, market,
                 returned, escaped, calls>>
  /\ UNCHANGED scanVars

(* lines 147-198: the accepted listings and their prices *)
ScanPage(page, bakugan_name, limit) ==
  Scan(PySliceTo(SelectCards(page), limit * ExamineFactor), 1, bakugan_name, limit,
       [listings |-> <<>>, prices |-> <<>>])

(* lines 147-209 on the page the browser rendered *)
P_Scan ==
  /\ pc = "p_scan"
  /\ \E page \in PricingPages :
       LET acc == ScanPage(page, args.name, args.limit)
       IN /\ soup' = SelectCards(page)
          /\ \E avg \in (IF acc.prices = <<>> THEN {NoPrice}
                          ELSE RoundedMeans(acc.prices)) :
               result' = Summarise(result, acc, avg, args.rarity)
  /\ pc' = "p_finally"
  /\ UNCHANGED <<op, args, driver, chrome, pending, pricing, images, market,
                 returned, escaped, calls>>
  /\ UNCHANGED scanVars

(* the finally clause of lines 221-226 and the return of line 228; an      *)
(* exception of driver.quit() is swallowed                                 *)
P_Finally ==
  /\ pc = "p_finally"
  /\ chrome' = IF driver # None THEN DriverQuit(chrome) ELSE chrome
  /\ driver' = None
  /\ soup' = <<>>
  /\ IF pending = None
     THEN /\ pricing' = result
          /\ returned' = returned \cup {"pricing"}
          /\ pc' = IF op = "getMarketData" THEN "m_images" ELSE "done"
          /\ UNCHANGED <<escaped, pending>>
     ELSE /\ escaped' = TRUE
          /\ pc' = "raised"
          /\ UNCHANGED <<pricing, returned, pending>>
  /\ UNCHANGED <<op, args, result, images, market, calls>>
  /\ UNCHANGED scanVars

----------------------------------------------------------------------------
(* get_market_data, line 350 *)

M_CallImages ==
  /\ pc = "m_images"
  /\ args' = [args EXCEPT !.limit = MarketImageLimit]
  /\ result' = InitImagesResult(args.name)
  /\ calls' = [calls EXCEPT !.images = @ + 1]
  /\ pc' = "i_create"
  /\ UNCHANGED <<op, driver, chrome, soup, pending, pricing, images, market,
                 returned, escaped>>
  /\ UNCHANGED scanVars

----------------------------------------------------------------------------
(* scrape_reference_images *)

(* lines 251-256 *)
I_CreateDriver ==
  /\ pc = "i_create"
  /\ \E outcome \in DriverOutcomes :
       LET c == create_selenium_driver(outcome, chrome)
       IN /\ driver' = c.driver
          /\ chrome' = c.chrome
          /\ IF c.driver = None
             THEN /\ result' = PlaceholderResult(result, args.attribute, None)
                  /\ pc' = "i_finally"
             ELSE /\ result' = result
                  /\ pc' = "i_load"
  /\ UNCHANGED <<op, args, soup, pending, pricing, images, market, returned,
                 escaped, calls>>
  /\ UNCHANGED scanVars

(* lines 258-269, and the except clause of lines 313-318 when they raise *)
I_Load ==
  /\ pc = "i_load"
  /\ \E o \in LoadOutcomes :
       IF Propagates(o)
       THEN LET h == ImagesHandler(o.exc)
            IN /\ pc' = "i_finally"
               /\ IF h = "unhandled"
                  THEN pending' = o.exc /\ result' = result
                  ELSE /\ pending' = None
                       /\ result' = PlaceholderResult(result, args.attribute, h)
       ELSE /\ pc' = "i_anchors"
            /\ UNCHANGED <<pending, result>>
  /\ UNCHANGED <<op, args, driver, chrome, soup, pricing, images, market,
                 returned, escaped, calls>>
  /\ UNCHANGED scanVars

(* lines 271-291 on the a.iusc anchors of the page the browser rendered *)
I_Anchors ==
  /\ pc = "i_anchors"
  /\ \E img_links \in AnchorLists :
       result' = ExtractAnchors(result, img_links, args.limit)
  /\ pc' = "i_tags"
  /\ UNCHANGED <<op, args, driver, chrome, soup, pending, pricing, images,
                 market, returned, escaped, calls>>
  /\ UNCHANGED scanVars

(* lines 293-311; the img tags of the page are read only when no anchor    *)
(* gave an image                                                           *)
I_Tags ==
  /\ pc = "i_tags"
  /\ \E img_tags \in (IF result.images = <<>> THEN ImgLists ELSE {<<>>}) :
       result' = ExtractTags(result, img_tags, args.limit, args.attribute)
  /\ pc' = "i_finally"
  /\ UNCHANGED <<op, args, driver, chrome, soup, pending, pricing, images,
                 market, returned, escaped, calls>>
  /\ UNCHANGED scanVars

(* the finally clause of lines 319-324 and the return of line 326 *)
I_Finally ==
  /\ pc = "i_finally"
  /\ chrome' = IF driver # None THEN DriverQuit(chrome) ELSE chrome
  /\ driver' = None
  /\ IF pending = None
     THEN /\ images' = result
          /\ returned' = returned \cup {"images"}
          /\ pc' = IF op = "getMarketData" THEN "m_compose" ELSE "done"
          /\ UNCHANGED <<escaped, pending>>
     ELSE /\ escaped' = TRUE
          /\ pc' = "raised"
          /\ UNCHANGED <<images, returned, pending>>
  /\ UNCHANGED <<op, args, soup, result, pricing, market, calls>>
  /\ UNCHANGED scanVars

----------------------------------------------------------------------------
(* get_market_data, lines 352-370 *)

M_Compose ==
  /\ pc = "m_compose"
  /\ market' = Compose(args.name, args.attribute, pricing, images)
  /\ returned' = returned \cup {"market"}
  /\ pc' = "done"
  /\ UNCHANGED <<op, args, driver, chrome, soup, result, pending, pricing,
                 images, escaped, calls>>
  /\ UNCHANGED scanVars

Next ==
  \/ CallFetchPricing
  \/ CallFetchImages
  \/ CallGetMarketData
  \/ P_CreateDriver
  \/ P_Load
  \/ P_Scan
  \/ P_Finally
  \/ M_CallImages
  \/ I_CreateDriver
  \/ I_Load
  \/ I_Anchors
  \/ I_Tags
  \/ I_Finally
  \/ M_Compose

Spec == Init /\ [][Next]_vars

----------------------------------------------------------------------------
(* main.py: analyze_bakugan, the session cookie and SCANS_STORAGE.         *)
(* Confidence is counted in hundredths.  uuid4() and datetime.now() are    *)
(* drawn from the counter `clock`.                                         *)

HistoryCap == 50

Clients == {"c1", "c2"}

ReplyNames == {"Unknown", "Dragonoid", None}
ReplyConfidences == {10, 29, 30, 90}

(* what chat.completions.create gives: the call raises, or the text has no *)
(* braces, or the text between the braces is not JSON, or it is an object  *)
Replies ==
  {[kind |-> k, name |-> None, confidence |-> 0] : k \in {"raises", "no_braces", "invalid"}}
  \cup {[kind |-> "object", name |-> n, confidence |-> c] :
          n \in ReplyNames, c \in ReplyConfidences}

analyze_bakugan(r) ==
  CASE r.kind = "raises" -> [name |-> "Error", confidence |-> 0]
    [] r.kind = "invalid" -> [name |-> "Error", confidence |-> 0]
    [] r.kind = "no_braces" -> [name |-> "Unknown", confidence |-> 0]
    [] OTHER -> [name |-> r.name, confidence |-> r.confidence]

(* request.json['image']: absent or empty, a data: URL, or bare base64 *)
ImageData == {"missing", "data_url", "base64"}

(* sorted(scans, key=created_at, reverse=True)[:50], as the names *)
RECURSIVE Newest(_)
Newest(scans) ==
  IF scans = {} THEN <<>>
  ELSE LET top == CHOOSE x \in scans : \A y \in scans : y.created_at <= x.created_at
       IN <<top>> \o Newest(scans \ {top})

Stored(sid) == IF sid \in DOMAIN SCANS_STORAGE THEN SCANS_STORAGE[sid] ELSE <<>>

StoredCount ==
  LET RECURSIVE Count(_)
      Count(S) == IF S = {} THEN 0
                  ELSE LET x == CHOOSE y \in S : TRUE
                       IN Len(SCANS_STORAGE[x]) + Count(S \ {x})
  IN Count(DOMAIN SCANS_STORAGE)

NoSession == 0

(* if 'session_id' not in session: session['session_id'] = str(uuid.uuid4()) *)
EnsureSession(c) ==
  IF session[c] = NoSession
  THEN [cookie |-> [session EXCEPT ![c] = clock + 1], clock |-> clock + 1]
  ELSE [cookie |-> session, clock |-> clock]

Body(scans) == [i \in 1..Len(scans) |-> [name |-> scans[i].name,
                                         confidence |-> scans[i].confidence]]

Range(f) == {f[i] : i \in DOMAIN f}

index(c) ==
  /\ session' = EnsureSession(c).cookie
  /\ clock' = EnsureSession(c).clock
  /\ response' = [route |-> "index", status |-> 200, body |-> <<>>]
  /\ UNCHANGED <<SCANS_STORAGE, reply>>
  /\ UNCHANGED scraperVars

history(c) ==
  LET e == EnsureSession(c)
  IN /\ session' = e.cookie
     /\ clock' = e.clock
     /\ response' = [route |-> "history", status |-> 200,
                     body |-> Body(Take(Newest(Range(Stored(e.cookie[c]))), HistoryCap))]
     /\ UNCHANGED <<SCANS_STORAGE, reply>>
     /\ UNCHANGED scraperVars

api_analyze(c, image_data, r) ==
  LET e == EnsureSession(c)
      session_id == e.cookie[c]
      res == analyze_bakugan(r)
      scan_record == [id |-> e.clock + 1,
                      session_id |-> session_id,
                      name |-> res.name,
                      confidence |-> res.confidence,
                      created_at |-> e.clock + 2]
  IN /\ StoredCount < MaxScans
     /\ session' = e.cookie
     /\ IF image_data = "missing"
        THEN /\ response' = [route |-> "api_analyze", status |-> 400, body |-> <<>>]
             /\ clock' = e.clock
             /\ UNCHANGED <<SCANS_STORAGE, reply>>
        ELSE /\ SCANS_STORAGE' =
                  [s \in DOMAIN SCANS_STORAGE \cup {session_id} |->
                     IF s = session_id THEN Append(Stored(s), scan_record)
                     ELSE SCANS_STORAGE[s]]
             /\ clock' = e.clock + 2
             /\ reply' = r
             /\ response' = [route |-> "api_analyze", status |-> 200,
                             body |-> <<[name |-> res.name, confidence |-> res.confidence]>>]
     /\ UNCHANGED scraperVars

api_history(c) ==
  /\ response' = [route |-> "api_history", status |-> 200,
                  body |-> IF session[c] = NoSession THEN <<>>
                           ELSE Body(Take(Newest(Range(Stored(session[c]))), HistoryCap))]
  /\ UNCHANGED <<SCANS_STORAGE, session, clock, reply>>
  /\ UNCHANGED scraperVars

Visit == \E c \in Clients : index(c)
History == \E c \in Clients : history(c)
Analyze == \E c \in Clients, d \in ImageData, r \in Replies : api_analyze(c, d, r)
ApiHistory == \E c \in Clients : api_history(c)

NextScan ==
  \/ Visit
  \/ History
  \/ Analyze
  \/ ApiHistory

SpecScan == Init /\ [][NextScan]_vars

----------------------------------------------------------------------------
(* Properties *)

PriceRun == {"p_create", "p_load", "p_scan", "p_finally"}
ImageRun == {"i_create", "i_load", "i_anchors", "i_tags", "i_finally"}

ListingsOf(listings) == {listings[i] : i \in 1..Len(listings)}
PricesOf(listings) == [i \in 1..Len(listings) |-> listings[i].price]

Summary(p) ==
  [success |-> p.success, estimated |-> p.estimated,
   average_price |-> p.average_price, min_price |-> p.min_price,
   max_price |-> p.max_price, num_listings |-> p.num_listings,
   listings |-> p.listings, error |-> p.error]

(* the pricing structures a caller holds *)
PricingOut ==
  (IF "pricing" \in returned THEN {Summary(pricing)} ELSE {})
  \cup (IF "market" \in returned THEN {Summary(market.pricing)} ELSE {})

(* the image lists a caller holds, with their success flags *)
ImagesOut ==
  (IF "images" \in returned
   THEN {[success |-> images.success, items |-> images.images]} ELSE {})
  \cup (IF "market" \in returned
        THEN {[success |-> market.images.success, items |-> market.images.items]}
        ELSE {})

NoEscape ==
  /\ escaped = FALSE
  /\ pending = None
  /\ pc # "raised"

Handed ==
  /\ op = "fetchPricing" => "pricing" \in returned
  /\ op = "fetchImages" => "images" \in returned
  /\ op = "getMarketData" => {"pricing", "images", "market"} \subseteq returned

(* steps left before the call is over, at most *)
Rank ==
  CASE pc = "idle" -> 13
    [] pc = "p_create" -> 12
    [] pc = "p_load" -> 11
    [] pc = "p_scan" -> 10
    [] pc = "p_finally" -> 9
    [] pc = "m_images" -> 8
    [] pc = "i_create" -> 7
    [] pc = "i_load" -> 6
    [] pc = "i_anchors" -> 5
    [] pc = "i_tags" -> 4
    [] pc = "i_finally" -> 3
    [] pc = "m_compose" -> 2
    [] pc = "done" -> 1
    [] OTHER -> 0

(* C1: whatever the external steps do, scrape_ebay_prices,                  *)
(* scrape_reference_images and get_market_data let no exception out: no     *)
(* exception is ever pending past a handler or raised to the caller, every  *)
(* step brings the call nearer to its end, and a call that is over has      *)
(* handed its result structure to the caller.                               *)
C1_NoErrorEscapes ==
  /\ [](NoEscape /\ (pc = "done" => Handed))
  /\ [][Rank' < Rank]_vars

C1_Witness ==
  /\ pc = "done"
  /\ op = "getMarketData"
  /\ market.pricing.error = "Exception"
  /\ market.pricing.estimated
  /\ market.images.items # <<>>
  /\ market.images.items[1].source = "Placeholder"

(* C2, as claimed: in every returned PricingSummary success implies         *)
(* num_listings >= 1.                                                       *)
C2_Original ==
  \A p \in PricingOut : p.success => p.num_listings >= 1

(* C2, amended: in every returned PricingSummary success without estimated  *)
(* implies num_listings >= 1.                                               *)
C2_RealSuccessHasListings ==
  \A p \in PricingOut : p.success /\ ~p.estimated => p.num_listings >= 1

C2_Witness ==
  \E p \in PricingOut : p.success /\ ~p.estimated /\ p.num_listings >= 1

ExpectedTier(rarity) ==
  CASE rarity = "Uncommon" -> [avg |-> 1500, min |-> 1000, max |-> 2500]
    [] rarity = "Rare" -> [avg |-> 3000, min |-> 2000, max |-> 5000]
    [] rarity = "Super Rare" -> [avg |-> 6000, min |-> 4000, max |-> 10000]
    [] rarity = "Ultra Rare" -> [avg |-> 12000, min |-> 8000, max |-> 25000]
    [] OTHER -> [avg |-> 800, min |-> 500, max |-> 1500]

(* C3: a summary returned by scrape_ebay_prices with no accepted listing is *)
(* the estimate of the given rarity: estimated, success, num_listings 0,    *)
(* average, min and max of the tier (Common for an absent or unknown        *)
(* rarity; 30, 20, 50 dollars for Rare).                                    *)
C3_ZeroListingsIsEstimate ==
  \A p \in PricingOut :
    p.listings = <<>> =>
      /\ p.estimated
      /\ p.success
      /\ p.num_listings = 0
      /\ p.average_price = ExpectedTier(args.rarity).avg
      /\ p.min_price = ExpectedTier(args.rarity).min
      /\ p.max_price = ExpectedTier(args.rarity).max

C3_Witness ==
  /\ pc = "done"
  /\ op = "fetchPricing"
  /\ args.rarity = "Rare"
  /\ chrome.quit = 1
  /\ pricing.error = None
  /\ pricing.listings = <<>>
  /\ pricing.average_price = 3000

InRange(price) == 100 <= price /\ price <= 50000

HasName(title) == Contains(Lower(args.name), Lower(title))

(* C4, as claimed: every listing of a returned real summary has a price in  *)
(* [1, 500] dollars and a returned title that contains the queried name.    *)
C4_Original ==
  \A p \in PricingOut :
    p.success /\ ~p.estimated =>
      \A l \in ListingsOf(p.listings) : InRange(l.price) /\ HasName(l.title)

(* C4, amended: every listing of a real summary has a price in [1, 500]     *)
(* dollars and its title is the first 80 characters of a candidate title    *)
(* that contains the queried name; a returned title of fewer than 80        *)
(* characters contains the name itself.                                     *)
C4_ListingsFiltered ==
  /\ \A p \in PricingOut :
       p.success /\ ~p.estimated =>
         \A l \in ListingsOf(p.listings) :
           /\ InRange(l.price)
           /\ Len(l.title) <= 80
           /\ (Len(l.title) < 80 => HasName(l.title))
  /\ (pc = "p_finally" /\ result.success /\ ~result.estimated =>
        \A l \in ListingsOf(result.listings) :
          /\ InRange(l.price)
          /\ \E i \in 1..Len(soup) :
               /\ soup[i].title # NoText
               /\ HasName(soup[i].title)
               /\ l.title = Take(soup[i].title, 80))

C4_Witness ==
  /\ "pricing" \in returned
  /\ pricing.success /\ ~pricing.estimated
  /\ \E l \in ListingsOf(pricing.listings) : Len(l.title) = 80 /\ ~HasName(l.title)
  /\ \E l \in ListingsOf(pricing.listings) : HasName(l.title)

IsRoundedMean(avg, prices) ==
  LET n == Len(prices)
      d == n * avg - Sum(prices)
  IN n > 0 /\ 2 * d <= n /\ 2 * d >= 0 - n

(* C5, as claimed: in every real pricing result handed to a caller, by      *)
(* scrape_ebay_prices or inside get_market_data, average_price is the mean  *)
(* of the prices of the listings of that result, rounded to the cent.       *)
C5_Original ==
  \A p \in PricingOut :
    p.success /\ ~p.estimated => IsRoundedMean(p.average_price, PricesOf(p.listings))

(* C5, amended: average_price of a real result of scrape_ebay_prices is the *)
(* rounded mean of its listings; get_market_data passes average_price and   *)
(* num_listings through and keeps the first 5 listings, so its average is   *)
(* the rounded mean of all accepted listings, and of the listings it holds  *)
(* when num_listings <= 5.                                                  *)
C5_AverageOfAccepted ==
  /\ ("pricing" \in returned /\ pricing.success /\ ~pricing.estimated =>
        /\ IsRoundedMean(pricing.average_price, PricesOf(pricing.listings))
        /\ pricing.num_listings = Len(pricing.listings))
  /\ ("market" \in returned =>
        /\ market.pricing.average_price = pricing.average_price
        /\ market.pricing.num_listings = pricing.num_listings
        /\ market.pricing.listings = SubSeq(pricing.listings, 1, Min(5, Len(pricing.listings)))
        /\ (market.pricing.success /\ ~market.pricing.estimated
            /\ market.pricing.num_listings <= 5 =>
              IsRoundedMean(market.pricing.average_price,
                            PricesOf(market.pricing.listings))))

C5_Witness ==
  /\ "market" \in returned
  /\ market.pricing.success /\ ~market.pricing.estimated
  /\ market.pricing.num_listings > 5
  /\ Len(market.pricing.listings) = 5
  /\ ~IsRoundedMean(market.pricing.average_price, PricesOf(market.pricing.listings))

HasDisallowed(url) ==
  \E w \in {<<"g", "i", "f">>, <<"s", "v", "g">>, <<"l", "o", "g", "o">>} :
    Contains(w, Lower(url))

(* C6, as claimed: no image returned by scrape_reference_images has a URL   *)
(* containing gif, svg or logo, on the metadata path and on the img path.   *)
C6_Original ==
  \A r \in ImagesOut : \A i \in 1..Len(r.items) : ~HasDisallowed(r.items[i].url)

(* C7: a returned image result without a real image holds exactly one item, *)
(* a placeholder, with success; and success holds exactly when the item     *)
(* list is non-empty.                                                       *)
C7_PlaceholderWhenEmpty ==
  \A r \in ImagesOut :
    /\ r.success <=> r.items # <<>>
    /\ ((\A i \in 1..Len(r.items) : r.items[i].source # "Web") =>
          /\ Len(r.items) = 1
          /\ r.items[1].source = "Placeholder"
          /\ r.success)

C7_Witness ==
  /\ pc = "done"
  /\ op = "fetchImages"
  /\ chrome.quit = 1
  /\ images.error = None
  /\ Len(images.images) = 1
  /\ images.images[1].source = "Placeholder"
  /\ images.success

(* C8, as claimed: for every limit <= 0 and every page scrape_ebay_prices   *)
(* returns the estimate: estimated, num_listings 0, no listings.            *)
C8_Original ==
  "pricing" \in returned /\ op = "fetchPricing" /\ args.limit <= 0 =>
    pricing.estimated /\ pricing.num_listings = 0 /\ pricing.listings = <<>>

LowConfidence == 30

AllScans == UNION {Range(SCANS_STORAGE[sid]) : sid \in DOMAIN SCANS_STORAGE}

NewestScan == CHOOSE x \in AllScans : \A y \in AllScans : y.created_at <= x.created_at

(* C9, as claimed: when the reply of the vision model is a JSON object with *)
(* confidence below 0.3, the result of analyze_bakugan and the record that  *)
(* api_analyze stores carry the name "Unknown".                             *)
C9_Original ==
  /\ response.route = "api_analyze"
  /\ response.status = 200
  /\ reply.kind = "object"
  /\ reply.confidence < LowConfidence
  => /\ response.body[1].name = "Unknown"
     /\ NewestScan.name = "Unknown"

(* C10, as claimed: in a run of get_market_data the price scraper is called *)
(* once and has returned with its browser quit before the image scraper is  *)
(* called once; at most one browser is live at any moment and every browser *)
(* launched has been quit when get_market_data returns.                     *)
C10_Original ==
  /\ calls.pricing <= 1 /\ calls.images <= 1
  /\ chrome.launched - chrome.quit <= 1
  /\ (op = "getMarketData" /\ pc \in ImageRun \cup {"m_compose", "done"} =>
        calls.pricing = 1 /\ "pricing" \in returned)
  /\ (op = "getMarketData" /\ pc \in PriceRun \cup {"m_images"} => calls.images = 0)
  /\ (op = "getMarketData" /\ pc \in {"m_images", "i_create"} =>
        chrome.launched = chrome.quit)
  /\ (op = "getMarketData" /\ pc = "done" =>
        calls.images = 1 /\ chrome.launched = chrome.quit)

====
